---- MODULE Spec2Model ----
(***************************************************************************)
(* A model of the recipe runner in src/main.py: main() selects a recipe,   *)
(* asks for its arguments, substitutes them into each step and runs the    *)
(* steps in order, either with subprocess.run (run_command_simple) or      *)
(* with a pexpect session (run_command_interactive).                       *)
(*                                                                         *)
(* Text is modelled as a sequence of atoms. The braces "{" and "}" are     *)
(* atoms of their own; every other atom stands for a brace-free piece of   *)
(* text ("cd ", "foo", "projectName").                                     *)
(***************************************************************************)
EXTENDS Integers, Sequences, FiniteSets, TLC

\* ------------------------------------------------------------------ text

Braces == {"{", "}"}

\* f"{{{{{arg_name}}}}}" : the literal text {{arg_name}}
Placeholder(arg_name) == <<"{", "{", arg_name, "}", "}">>

IsPrefix(p, s) == Len(p) <= Len(s) /\ SubSeq(s, 1, Len(p)) = p

\* A faulty replace that stops after the first occurrence (count = 1).
RECURSIVE ReplaceFirst(_, _, _)
ReplaceFirst(s, old, new) ==
    IF Len(s) < Len(old) THEN s
    ELSE IF IsPrefix(old, s)
         THEN new \o SubSeq(s, Len(old) + 1, Len(s))
         ELSE <<s[1]>> \o ReplaceFirst(Tail(s), old, new)

\* str.replace(old, new) for a non-empty old: the non-overlapping occurrences
\* of old, found scanning from the left, each replaced by new; the text that
\* new brings in is not scanned again.
RECURSIVE Replace(_, _, _)
Replace(s, old, new) ==
    IF Len(s) < Len(old) THEN s
    ELSE IF IsPrefix(old, s)
         THEN new \o Replace(SubSeq(s, Len(old) + 1, Len(s)), old, new)
         ELSE <<s[1]>> \o Replace(Tail(s), old, new)

\* A faulty loop that goes through the bindings from the last to the first.
RECURSIVE SubstituteBackwards(_, _)
SubstituteBackwards(s, bindings) ==
    IF bindings = <<>> THEN s
    ELSE SubstituteBackwards(
             Replace(s, Placeholder(bindings[Len(bindings)].key),
                        bindings[Len(bindings)].value),
             SubSeq(bindings, 1, Len(bindings) - 1))

\* The loop "for arg_name, arg_value in args_values.items(): s = s.replace(..)":
\* one replace per binding, in the dict's order, each over the result of the
\* one before. bindings is the dict as a sequence of [key, value] records.
RECURSIVE Substitute(_, _)
Substitute(s, bindings) ==
    IF bindings = <<>> THEN s
    ELSE Substitute(Replace(s, Placeholder(bindings[1].key), bindings[1].value),
                    Tail(bindings))

\* args_values[arg_name] = value : a new key goes last, a key already present
\* keeps its place and takes the new value.
DictSet(d, k, v) ==
    IF \E n \in 1..Len(d) : d[n].key = k
    THEN [n \in 1..Len(d) |-> IF d[n].key = k THEN [key |-> k, value |-> v] ELSE d[n]]
    ELSE Append(d, [key |-> k, value |-> v])

\* ------------------------------------------------------------- recipes

\* What load_recipes() returns: the parsed recipes.yaml. A step has the key
\* "cwd" or "interactive" only when the file gives it.
recipes == <<
    [name |-> "scaffold",
     args |-> << [key |-> "projectName", question |-> "Project name?"],
                 [key |-> "dir",         question |-> "Directory?"] >>,
     commands |-> <<
        [name |-> "build",
         run  |-> <<"cd ">> \o Placeholder("projectName") \o <<" && build">>,
         cwd  |-> Placeholder("dir")],
        [name |-> "echo",
         run  |-> <<"echo ">> \o Placeholder("projectName") \o <<" ">>
                    \o Placeholder("projectName") \o Placeholder("other"),
         cwd  |-> <<"{", "{">> \o Placeholder("projectName") \o <<"}", "}">>] >>],
    [name |-> "auto",
     commands |-> <<
        [name |-> "init",
         run  |-> <<"init">>,
         interactive |-> << [question |-> "Q1", answer |-> "y"],
                            [question |-> "Q2", answer |-> "n"] >>],
        [name |-> "finish",
         run  |-> <<"echo done">>] >>],
    [name |-> "mixed",
     args |-> << [key |-> "projectName", question |-> "Project name?"] >>,
     commands |-> <<
        [name |-> "mkdir",
         run  |-> <<"mkdir ">> \o Placeholder("projectName")],
        [name |-> "setup",
         run  |-> <<"setup ">> \o Placeholder("projectName"),
         cwd  |-> Placeholder("projectName"),
         interactive |-> << [question |-> "Q1", answer |-> "y"] >>],
        [name |-> "wait",
         run  |-> <<"wait">>,
         interactive |-> << >>] >>]
>>

\* ---------------------------------------------------------------- state

VARIABLES
    pc,              \* where the program is: "select", "ask_args", "loop",
                     \* "simple", "spawn", "expect", "sendline", "expect_eof",
                     \* "done", "crashed"
    recipe_name,     \* main: the answer to the recipe question, once given
    selected_recipe, \* main: the recipe chosen
    args_values,     \* main: the dict of argument values, in insertion order
    argn,            \* main: index of the argument being asked
    i,               \* main: index of the current step (the code's i + 1)
    command_to_run,  \* main: the step's command after substitution
    cwd,             \* main: the step's working directory after substitution
    console,         \* what console.print has written, in order
    started,         \* the steps whose execution function has been called
    outcome,         \* per step: "none", "success", "failed", "raised"
    status,          \* per step: how its process ended, once that is known
    asked,           \* the argument questions put to the operator, in order
    spawned,         \* per step: how its command was started, once it is
    child,           \* the pexpect child: its process and its pty
    buffer,          \* output of the child not yet consumed by an expect
    emitted,         \* number of pieces of output the child has written
    k,               \* run_command_interactive: index of the interaction
    matched,         \* the output each returned expect has matched, in order
    sent,            \* the answers sent with sendline, in order
    waited,          \* seconds the current expect has waited
    elapsed,         \* seconds since the child was spawned
    cause            \* why the last interactive step returned False

mainVars  == <<selected_recipe, args_values, argn, i, command_to_run, cwd>>
histVars  == <<console, started, outcome, status>>
childVars == <<child, buffer, emitted>>
stepVars  == <<k, matched, sent, waited, elapsed, cause>>
askVars   == <<recipe_name, asked, spawned>>
vars == <<pc, mainVars, histVars, childVars, stepVars, askVars>>

\* ---------------------------------------------------------- the operator

None == <<>>

\* What questionary.text(..).ask() can return: nothing, or a line of text.
OperatorValues ==
    { None, <<"foo">>, <<"dir">>, Placeholder("dir"), Placeholder("projectName") }

\* How a process ends: exit with a code, or death by a signal.
ExitCodes == {0, 1}
Terminations ==
    { [kind |-> "exit", code |-> c] : c \in ExitCodes } \cup { [kind |-> "signal", code |-> 9] }

NoRecipe == [name |-> "", commands |-> <<>>]
NoStatus == [kind |-> "none", code |-> 0]
NotSpawned == [how |-> "none", pty |-> FALSE]
NoChild  == [state |-> "none", status |-> NoStatus,
             slaveOpen |-> FALSE, fdOpen |-> FALSE, step |-> 0]

Init ==
    /\ pc = "select"
    /\ recipe_name = ""
    /\ selected_recipe = NoRecipe
    /\ args_values = <<>>
    /\ argn = 1
    /\ i = 1
    /\ command_to_run = <<>>
    /\ cwd = None
    /\ console = <<>>
    /\ started = {}
    /\ outcome = <<>>
    /\ status = <<>>
    /\ asked = <<>>
    /\ spawned = <<>>
    /\ child = NoChild
    /\ buffer = <<>>
    /\ emitted = 0
    /\ k = 1
    /\ matched = <<>>
    /\ sent = <<>>
    /\ waited = 0
    /\ elapsed = 0
    /\ cause = "none"

commands == selected_recipe.commands
command_step == commands[i]

\* ------------------------------------------------------------------ main

\* main, lines 96-97 and 125-126: entering the loop over the commands; with
\* no command the loop's else branch reports success at once.
EnterLoop(r) ==
    IF Len(r.commands) = 0
    THEN /\ pc' = "done"
         /\ console' = Append(console, [msg |-> "all_completed"])
    ELSE /\ pc' = "loop"
         /\ UNCHANGED console

\* A faulty selection without the test for a cancelled question: the lookup
\* finds no recipe and the use of its result raises.
SelectNoCancelTest ==
    /\ pc = "select"
    /\ \E answer \in { recipes[n].name : n \in 1..Len(recipes) } \cup { "" } :
         /\ recipe_name' = answer
         /\ IF answer = ""
            THEN /\ pc' = "crashed"
                 /\ console' = Append(console, [msg |-> "traceback"])
                 /\ UNCHANGED <<selected_recipe, outcome, status, spawned>>
            ELSE LET n == CHOOSE m \in 1..Len(recipes) :
                             /\ recipes[m].name = answer
                             /\ \A l \in 1..(m - 1) : recipes[l].name # answer
                     r == recipes[n]
                 IN /\ selected_recipe' = r
                    /\ outcome' = [m \in 1..Len(r.commands) |-> "none"]
                    /\ status' = [m \in 1..Len(r.commands) |-> NoStatus]
                    /\ spawned' = [m \in 1..Len(r.commands) |-> NotSpawned]
                    /\ IF "args" \in DOMAIN r /\ Len(r.args) > 0
                       THEN pc' = "ask_args" /\ UNCHANGED console
                       ELSE EnterLoop(r)
    /\ UNCHANGED <<args_values, argn, i, command_to_run, cwd, started, asked>>
    /\ UNCHANGED <<childVars, stepVars>>

\* main, lines 74-87: the operator picks a recipe or cancels.
Select ==
    /\ pc = "select"
    /\ \E answer \in { recipes[n].name : n \in 1..Len(recipes) } \cup { "" } :
         /\ recipe_name' = answer
         /\ IF answer = ""
            THEN /\ pc' = "done"
                 /\ UNCHANGED <<selected_recipe, outcome, status, spawned, console>>
            ELSE LET n == CHOOSE m \in 1..Len(recipes) :
                             /\ recipes[m].name = answer
                             /\ \A l \in 1..(m - 1) : recipes[l].name # answer
                     r == recipes[n]
                 IN /\ selected_recipe' = r
                    /\ outcome' = [m \in 1..Len(r.commands) |-> "none"]
                    /\ status' = [m \in 1..Len(r.commands) |-> NoStatus]
                    /\ spawned' = [m \in 1..Len(r.commands) |-> NotSpawned]
                    /\ IF "args" \in DOMAIN r /\ Len(r.args) > 0
                       THEN pc' = "ask_args" /\ UNCHANGED console
                       ELSE EnterLoop(r)
    /\ UNCHANGED <<args_values, argn, i, command_to_run, cwd, started, asked>>
    /\ UNCHANGED <<childVars, stepVars>>

\* A faulty turn of the argument loop that takes an empty answer as a value.
AskArgNoAbort ==
    /\ pc = "ask_args"
    /\ \E value \in OperatorValues :
         /\ asked' = Append(asked, [question |-> selected_recipe.args[argn].question,
                                     value |-> value])
         /\ args_values' = DictSet(args_values, selected_recipe.args[argn].key, value)
         /\ argn' = argn + 1
         /\ IF argn = Len(selected_recipe.args)
            THEN EnterLoop(selected_recipe)
            ELSE pc' = "ask_args" /\ UNCHANGED console
    /\ UNCHANGED <<selected_recipe, i, command_to_run, cwd, started, outcome, status>>
    /\ UNCHANGED <<recipe_name, spawned>>
    /\ UNCHANGED <<childVars, stepVars>>

\* main, lines 88-94: one turn of the loop over the declared arguments.
AskArg ==
    /\ pc = "ask_args"
    /\ \E value \in OperatorValues :
         /\ asked' = Append(asked, [question |-> selected_recipe.args[argn].question,
                                     value |-> value])
         /\ IF value = None
            THEN /\ console' = Append(console, [msg |-> "empty_argument"])
                 /\ pc' = "done"
                 /\ UNCHANGED <<args_values, argn>>
            ELSE /\ args_values' = DictSet(args_values, selected_recipe.args[argn].key, value)
                 /\ argn' = argn + 1
                 /\ IF argn = Len(selected_recipe.args)
                    THEN EnterLoop(selected_recipe)
                    ELSE pc' = "ask_args" /\ UNCHANGED console
    /\ UNCHANGED <<selected_recipe, i, command_to_run, cwd, started, outcome, status>>
    /\ UNCHANGED <<recipe_name, spawned>>
    /\ UNCHANGED <<childVars, stepVars>>

\* A faulty dispatch that tests the list of interactions for being non-empty
\* instead of the step for having the key.
StartStepByLength ==
    /\ pc = "loop"
    /\ command_to_run' = Substitute(command_step.run, args_values)
    /\ cwd' = IF "cwd" \in DOMAIN command_step /\ command_step.cwd # <<>>
              THEN Substitute(command_step.cwd, args_values)
              ELSE None
    /\ console' = Append(console, [msg |-> "step", n |-> i])
    /\ started' = started \cup {i}
    /\ pc' = IF "interactive" \in DOMAIN command_step /\ Len(command_step.interactive) > 0
             THEN "spawn" ELSE "simple"
    /\ UNCHANGED <<selected_recipe, args_values, argn, i, outcome, status>>
    /\ UNCHANGED <<childVars, stepVars>>
    /\ UNCHANGED askVars

\* main, lines 98-117: substitution, the step's headline, and the call of the
\* execution function the step's keys select.
StartStep ==
    /\ pc = "loop"
    /\ command_to_run' = Substitute(command_step.run, args_values)
    /\ cwd' = IF "cwd" \in DOMAIN command_step /\ command_step.cwd # <<>>
              THEN Substitute(command_step.cwd, args_values)
              ELSE None
    /\ console' = Append(console, [msg |-> "step", n |-> i])
    /\ started' = started \cup {i}
    /\ pc' = IF "interactive" \in DOMAIN command_step THEN "spawn" ELSE "simple"
    /\ UNCHANGED <<selected_recipe, args_values, argn, i, outcome, status>>
    /\ UNCHANGED <<childVars, stepVars>>
    /\ UNCHANGED askVars

\* A faulty loop tail that goes on to the next step after a failure.
AfterStepNoBreak(success, printed) ==
    /\ outcome' = [outcome EXCEPT ![i] = IF success THEN "success" ELSE "failed"]
    /\ LET said == console \o printed \o
                     (IF success THEN <<[msg |-> "step_completed", n |-> i]>>
                                 ELSE <<[msg |-> "step_failed"]>>)
       IN IF i = Len(commands)
          THEN /\ console' = Append(said, [msg |-> "all_completed"])
               /\ pc' = "done"
               /\ i' = i
          ELSE /\ console' = said
               /\ pc' = "loop"
               /\ i' = i + 1

\* A faulty loop tail whose final report is written after the loop whether
\* or not it was left by break.
AfterStepElseAlways(success, printed) ==
    /\ outcome' = [outcome EXCEPT ![i] = IF success THEN "success" ELSE "failed"]
    /\ IF ~success
       THEN /\ console' = console \o printed \o
                            <<[msg |-> "step_failed"], [msg |-> "all_completed"]>>
            /\ pc' = "done"
            /\ i' = i
       ELSE IF i = Len(commands)
            THEN /\ console' = console \o printed \o
                                 <<[msg |-> "step_completed", n |-> i],
                                   [msg |-> "all_completed"]>>
                 /\ pc' = "done"
                 /\ i' = i
            ELSE /\ console' = console \o printed \o
                                 <<[msg |-> "step_completed", n |-> i]>>
                 /\ pc' = "loop"
                 /\ i' = i + 1

\* main, lines 119-126, run when the execution function returns: success is
\* its result and printed is what it wrote to the console before returning.
AfterStep(success, printed) ==
    /\ outcome' = [outcome EXCEPT ![i] = IF success THEN "success" ELSE "failed"]
    /\ IF ~success
       THEN /\ console' = console \o printed \o <<[msg |-> "step_failed"]>>
            /\ pc' = "done"
            /\ i' = i
       ELSE IF i = Len(commands)
            THEN /\ console' = console \o printed \o
                                 <<[msg |-> "step_completed", n |-> i],
                                   [msg |-> "all_completed"]>>
                 /\ pc' = "done"
                 /\ i' = i
            ELSE /\ console' = console \o printed \o
                                 <<[msg |-> "step_completed", n |-> i]>>
                 /\ pc' = "loop"
                 /\ i' = i + 1

\* ---------------------------------------------------- run_command_simple

\* process.returncode: the exit code, or minus the signal's number.
returncode(t) == IF t.kind = "exit" THEN t.code ELSE 0 - t.code

\* line 32: process.returncode != 0
SimpleFails(t) == returncode(t) # 0

\* A faulty run_command_simple that returns False without a word.
SimpleRunSilent ==
    /\ pc = "simple"
    /\ \E t \in Terminations :
         /\ status' = [status EXCEPT ![i] = t]
         /\ spawned' = [spawned EXCEPT ![i] = [how |-> "shell", pty |-> FALSE]]
         /\ IF SimpleFails(t)
            THEN AfterStep(FALSE, <<>>)
            ELSE AfterStep(TRUE, <<>>)
    /\ UNCHANGED <<selected_recipe, args_values, argn, command_to_run, cwd, started>>
    /\ UNCHANGED <<childVars, stepVars, recipe_name, asked>>

\* run_command_simple, lines 26-35: subprocess.run blocks until the shell
\* ends, in whichever way it ends.
SimpleRun ==
    /\ pc = "simple"
    /\ \E t \in Terminations :
         /\ status' = [status EXCEPT ![i] = t]
         /\ spawned' = [spawned EXCEPT ![i] = [how |-> "shell", pty |-> FALSE]]
         /\ IF SimpleFails(t)
            THEN AfterStep(FALSE, <<[msg |-> "error_exit_code", code |-> returncode(t)]>>)
            ELSE AfterStep(TRUE, <<>>)
    /\ UNCHANGED <<selected_recipe, args_values, argn, command_to_run, cwd, started>>
    /\ UNCHANGED <<childVars, stepVars, recipe_name, asked>>

\* run_command_simple, line 26, when subprocess.run itself raises (the
\* working directory does not exist): nothing in main catches it.
SimpleRaise ==
    /\ pc = "simple"
    /\ cwd # None
    /\ outcome' = [outcome EXCEPT ![i] = "raised"]
    /\ console' = Append(console, [msg |-> "traceback"])
    /\ pc' = "crashed"
    /\ UNCHANGED <<selected_recipe, args_values, argn, i, command_to_run, cwd, started, status>>
    /\ UNCHANGED <<childVars, stepVars>>
    /\ UNCHANGED askVars

\* ----------------------------------------------- run_command_interactive

\* child.expect(.., timeout=60) and pexpect.spawn(.., timeout=300), seconds.
PerPromptTimeout == 60
SpawnTimeout == 300

\* Time passes in steps of half a prompt timeout.
TickSeconds == PerPromptTimeout \div 2

\* The child writes at most MaxEmit pieces of output, each one a text that
\* matches the question of the same name, or "noise" that matches nothing.
MaxEmit == 3
Outputs == {"Q1", "Q2", "noise"}

interactions == command_step.interactive

\* The position of the first match of question in the buffer, 0 without one.
FirstMatch(buf, question) ==
    IF \E n \in 1..Len(buf) : buf[n] = question
    THEN CHOOSE n \in 1..Len(buf) :
            /\ buf[n] = question
            /\ \A m \in 1..(n - 1) : buf[m] # question
    ELSE 0

\* The expect that is waiting, if one is: its pattern has not shown up, the
\* stream is open and its timeout has not run out.
ExpectBlocked ==
    \/ /\ pc = "expect"
       /\ FirstMatch(buffer, interactions[k].question) = 0
       /\ child.slaveOpen
       /\ waited < PerPromptTimeout
    \/ /\ pc = "expect_eof"
       /\ child.slaveOpen
       /\ waited < SpawnTimeout

\* Time passes while an expect waits.
Tick ==
    /\ ExpectBlocked
    /\ waited' = waited + TickSeconds
    /\ elapsed' = elapsed + TickSeconds
    /\ UNCHANGED <<pc, mainVars, histVars, childVars, k, matched, sent, cause>>
    /\ UNCHANGED askVars

\* The child writes to its terminal.
ChildEmit ==
    /\ child.state = "running"
    /\ child.slaveOpen
    /\ emitted < MaxEmit
    /\ \E out \in Outputs : buffer' = Append(buffer, out)
    /\ emitted' = emitted + 1
    /\ UNCHANGED <<pc, mainVars, histVars, child, stepVars>>
    /\ UNCHANGED askVars

\* The child closes its side of the terminal and keeps running.
ChildCloseStream ==
    /\ child.state = "running"
    /\ child.slaveOpen
    /\ child' = [child EXCEPT !.slaveOpen = FALSE]
    /\ UNCHANGED <<pc, mainVars, histVars, buffer, emitted, stepVars>>
    /\ UNCHANGED askVars

\* The child ends; until someone waits for it, it is a zombie.
ChildExit ==
    /\ child.state = "running"
    /\ \E t \in Terminations :
         child' = [child EXCEPT !.state = "zombie", !.status = t, !.slaveOpen = FALSE]
    /\ UNCHANGED <<pc, mainVars, histVars, buffer, emitted, stepVars>>
    /\ UNCHANGED askVars

\* line 41: pexpect.spawn starts the child on a new pseudo-terminal.
Spawn ==
    /\ pc = "spawn"
    /\ child' = [state |-> "running", status |-> NoChild.status,
                 slaveOpen |-> TRUE, fdOpen |-> TRUE, step |-> i]
    /\ buffer' = <<>>
    /\ emitted' = 0
    /\ k' = 1
    /\ matched' = <<>>
    /\ sent' = <<>>
    /\ waited' = 0
    /\ elapsed' = 0
    /\ cause' = "none"
    /\ pc' = IF Len(interactions) = 0 THEN "expect_eof" ELSE "expect"
    /\ spawned' = [spawned EXCEPT ![i] = [how |-> "exec", pty |-> TRUE]]
    /\ UNCHANGED <<mainVars, histVars, recipe_name, asked>>

\* lines 41 and 61-63: pexpect.spawn raises (command not found, no such
\* working directory); there is no child.
SpawnRaise ==
    /\ pc = "spawn"
    /\ cause' = "spawn"
    /\ AfterStep(FALSE, <<[msg |-> "error_unexpected"]>>)
    /\ UNCHANGED <<selected_recipe, args_values, argn, command_to_run, cwd, started, status>>
    /\ UNCHANGED <<childVars, k, matched, sent, waited, elapsed>>
    /\ UNCHANGED askVars

\* A faulty expect that returns without having seen the question.
ExpectNoWait ==
    /\ pc = "expect"
    /\ pc' = "sendline"
    /\ UNCHANGED <<mainVars, histVars, childVars, stepVars>>
    /\ UNCHANGED askVars

\* line 46, expect returns: the question is in the output read before the
\* timeout; the output up to the end of the match is consumed.
ExpectMatch ==
    /\ pc = "expect"
    /\ waited < PerPromptTimeout
    /\ LET n == FirstMatch(buffer, interactions[k].question)
       IN /\ n > 0
          /\ buffer' = SubSeq(buffer, n + 1, Len(buffer))
          /\ matched' = Append(matched, buffer[n])
    /\ pc' = "sendline"
    /\ UNCHANGED <<mainVars, histVars, child, emitted, k, sent, waited, elapsed, cause>>
    /\ UNCHANGED askVars

\* A faulty handler that gives up on the question and carries on.
ExpectTimeoutSkip ==
    /\ pc = "expect"
    /\ waited >= PerPromptTimeout
    /\ pc' = "sendline"
    /\ UNCHANGED <<mainVars, histVars, childVars, stepVars>>
    /\ UNCHANGED askVars

\* lines 46 and 58-60: the timeout runs out first; TIMEOUT is raised, the
\* handler reports it and returns False. The child is left as it is.
ExpectTimeout ==
    /\ pc = "expect"
    /\ waited >= PerPromptTimeout
    /\ cause' = "prompt_timeout"
    /\ AfterStep(FALSE, <<[msg |-> "error_timeout"]>>)
    /\ UNCHANGED <<selected_recipe, args_values, argn, command_to_run, cwd, started, status>>
    /\ UNCHANGED <<childVars, k, matched, sent, waited, elapsed>>
    /\ UNCHANGED askVars

\* What the failed read does to the child: pexpect's isalive() waits for a
\* child that has ended. The pty stays open.
AfterEOF(c) == IF c.state = "zombie" THEN [c EXCEPT !.state = "reaped"] ELSE c

\* A faulty handler that reports the end of the stream as a timeout.
ExpectEOFAsTimeout ==
    /\ pc = "expect"
    /\ waited < PerPromptTimeout
    /\ FirstMatch(buffer, interactions[k].question) = 0
    /\ ~child.slaveOpen
    /\ child' = AfterEOF(child)
    /\ cause' = "eof"
    /\ AfterStep(FALSE, <<[msg |-> "error_timeout"]>>)
    /\ UNCHANGED <<selected_recipe, args_values, argn, command_to_run, cwd, started, status>>
    /\ UNCHANGED <<buffer, emitted, k, matched, sent, waited, elapsed>>
    /\ UNCHANGED askVars

\* lines 46 and 61-63: the stream ends before the question shows up; EOF is
\* raised, the general handler reports it and returns False.
ExpectEOF ==
    /\ pc = "expect"
    /\ waited < PerPromptTimeout
    /\ FirstMatch(buffer, interactions[k].question) = 0
    /\ ~child.slaveOpen
    /\ child' = AfterEOF(child)
    /\ cause' = "eof"
    /\ AfterStep(FALSE, <<[msg |-> "error_unexpected"]>>)
    /\ UNCHANGED <<selected_recipe, args_values, argn, command_to_run, cwd, started, status>>
    /\ UNCHANGED <<buffer, emitted, k, matched, sent, waited, elapsed>>
    /\ UNCHANGED askVars

\* line 47: the answer is written to the terminal; the loop goes on to the
\* next interaction, or to the final expect. A write to a terminal whose
\* other side is closed may still succeed.
Sendline ==
    /\ pc = "sendline"
    /\ sent' = Append(sent, interactions[k].answer)
    /\ k' = k + 1
    /\ waited' = 0
    /\ pc' = IF k = Len(interactions) THEN "expect_eof" ELSE "expect"
    /\ UNCHANGED <<mainVars, histVars, childVars, matched, elapsed, cause>>
    /\ UNCHANGED askVars

\* lines 47 and 61-63: the write fails because the other side is closed.
SendlineRaise ==
    /\ pc = "sendline"
    /\ ~child.slaveOpen
    /\ cause' = "send"
    /\ AfterStep(FALSE, <<[msg |-> "error_unexpected"]>>)
    /\ UNCHANGED <<selected_recipe, args_values, argn, command_to_run, cwd, started, status>>
    /\ UNCHANGED <<childVars, k, matched, sent, waited, elapsed>>
    /\ UNCHANGED askVars

\* A faulty test that takes a missing exit status for a success.
InteractiveFailsOnCode(t) == t.kind = "exit" /\ t.code # 0

\* line 53: child.exitstatus != 0, where exitstatus is None for a child that
\* a signal ended.
InteractiveFails(t) == ~(t.kind = "exit" /\ t.code = 0)

\* lines 50-56: the final expect sees the end of the stream; close() closes
\* the pty, ends the child if it still runs and waits for it; the exit
\* status decides the result.
Finish ==
    /\ pc = "expect_eof"
    /\ waited < SpawnTimeout
    /\ ~child.slaveOpen
    /\ \E t \in Terminations :
         /\ child.state = "zombie" => t = child.status
         /\ child' = [child EXCEPT !.state = "reaped", !.status = t, !.fdOpen = FALSE]
         /\ status' = [status EXCEPT ![i] = t]
         /\ IF InteractiveFails(t)
            THEN /\ cause' = "exit"
                 /\ AfterStep(FALSE, <<[msg |-> "error_exit_code", code |-> t]>>)
            ELSE /\ cause' = "none"
                 /\ AfterStep(TRUE, <<>>)
    /\ buffer' = <<>>
    /\ UNCHANGED <<selected_recipe, args_values, argn, command_to_run, cwd, started>>
    /\ UNCHANGED <<emitted, k, matched, sent, waited, elapsed>>
    /\ UNCHANGED askVars

\* lines 50 and 58-60: the stream is still open when the timeout of the
\* final expect, the one given to spawn, runs out.
FinalTimeout ==
    /\ pc = "expect_eof"
    /\ waited >= SpawnTimeout
    /\ cause' = "final_timeout"
    /\ AfterStep(FALSE, <<[msg |-> "error_timeout"]>>)
    /\ UNCHANGED <<selected_recipe, args_values, argn, command_to_run, cwd, started, status>>
    /\ UNCHANGED <<childVars, k, matched, sent, waited, elapsed>>
    /\ UNCHANGED askVars

\* ------------------------------------------------------- specification

Next ==
    \/ Select
    \/ AskArg
    \/ StartStep
    \/ SimpleRun
    \/ SimpleRaise
    \/ Spawn
    \/ SpawnRaise
    \/ ExpectMatch
    \/ ExpectTimeout
    \/ ExpectEOF
    \/ Sendline
    \/ SendlineRaise
    \/ Finish
    \/ FinalTimeout
    \/ Tick
    \/ ChildEmit
    \/ ChildCloseStream
    \/ ChildExit

Spec == Init /\ [][Next]_vars

TypeOK ==
    /\ pc \in {"select", "ask_args", "loop", "simple", "spawn", "expect",
               "sendline", "expect_eof", "done", "crashed"}
    /\ child.state \in {"none", "running", "zombie", "reaped"}
    /\ emitted \in 0..MaxEmit
    /\ waited \in 0..SpawnTimeout
    /\ cause \in {"none", "spawn", "prompt_timeout", "eof", "send", "exit", "final_timeout"}

\* ---------------------------------------------------------- properties

Reported(m) == \E n \in 1..Len(console) : console[n].msg = m

Steps == 1..Len(outcome)
IsInteractive(n) == "interactive" \in DOMAIN commands[n]
Finished == pc \in {"done", "crashed"}

\* The step the child belongs to has returned.
ChildStepReturned == child.step # 0 /\ outcome[child.step] # "none"

\* The interactions of the step the session variables belong to.
script == commands[child.step].interactive

\* C1. Fail-fast: once a step has ended otherwise than in success, no later
\* step has been started or is ever started, the run is over and its failure
\* has been reported: by the abort message when the step returned False, by
\* the traceback when the step raised; success is not reported.
C1_FailFast ==
    \A a \in Steps :
        outcome[a] \notin {"none", "success"} =>
            /\ \A b \in Steps : b > a => (b \notin started /\ outcome[b] = "none")
            /\ Finished
            /\ outcome[a] = "failed" => Reported("step_failed")
            /\ outcome[a] = "raised" => Reported("traceback")
            /\ ~Reported("all_completed")

\* A first step has failed with a second one still to come.
C1_Witness ==
    /\ pc = "done"
    /\ Len(outcome) >= 2
    /\ outcome[1] = "failed"
    /\ Reported("step_failed")

\* C2. A session sends its answers in the declared order, each one only
\* after an expect has matched its question: at any time the answers sent
\* are the first answers of the script, the outputs matched are the first
\* questions of the script, the answers never outnumber the matches, and
\* once the loop over the N interactions is through exactly N were sent.
C2_ScriptedOrder ==
    child.step # 0 =>
        /\ Len(sent) <= Len(matched)
        /\ Len(matched) <= Len(sent) + 1
        /\ Len(matched) <= Len(script)
        /\ \A n \in 1..Len(matched) : matched[n] = script[n].question
        /\ \A n \in 1..Len(sent) : sent[n] = script[n].answer
        /\ (pc = "expect_eof" \/ outcome[child.step] = "success")
              => Len(sent) = Len(script)

\* A session with two interactions has sent both answers.
C2_Witness ==
    /\ pc = "expect_eof"
    /\ Len(sent) = 2
    /\ Len(matched) = 2

\* C3. After a timeout, of a prompt or of the final wait, the interactive
\* step has not returned with its child still running.
C3_TimeoutKillsChild ==
    cause \in {"prompt_timeout", "final_timeout"} => child.state # "running"

\* C4. When the interactive step has returned, on whatever path, its pty is
\* closed and its child has been waited for.
C4_ReleasedOnReturn ==
    ChildStepReturned => (~child.fdOpen /\ child.state = "reaped")

\* C5. A question that has not shown up when the prompt timeout runs out
\* ends the session at once: no answer is ever about to be sent after a wait
\* that reached the timeout; the step returns False with the timeout
\* reported, the answer to that question and the later ones are never sent,
\* whatever the child writes afterwards, and the recipe is aborted.
C5_PromptTimeoutAborts ==
    /\ pc = "sendline" => waited < PerPromptTimeout
    /\ cause = "prompt_timeout" =>
          /\ pc = "done"
          /\ outcome[i] = "failed"
          /\ Len(matched) = k - 1
          /\ Len(sent) = k - 1
          /\ Reported("error_timeout")
          /\ Reported("step_failed")
          /\ ~Reported("all_completed")
          /\ \A b \in Steps : b > i => b \notin started

\* A prompt has timed out and its question has shown up afterwards.
C5_Witness ==
    /\ cause = "prompt_timeout"
    /\ pc = "done"
    /\ FirstMatch(buffer, interactions[k].question) > 0

\* C6. A stream that closes before the question in turn has shown up ends
\* the session as an unexpected termination, not as a timeout: the step
\* returns False, what is reported is the unexpected error and no timeout,
\* no further answer is sent, and the recipe is aborted.
C6_StreamClosedEarly ==
    cause = "eof" =>
        /\ pc = "done"
        /\ outcome[i] = "failed"
        /\ Len(sent) = k - 1
        /\ k <= Len(interactions)
        /\ Reported("error_unexpected")
        /\ ~Reported("error_timeout")
        /\ Reported("step_failed")
        /\ ~Reported("all_completed")
        /\ \A b \in Steps : b > i => b \notin started

\* The stream has closed after the first answer, before the second question.
C6_Witness ==
    /\ cause = "eof"
    /\ pc = "done"
    /\ Len(sent) = 1
    /\ Len(interactions) = 2

\* C7. The session never lasts longer than the timeout given to spawn: from
\* the spawn to the outcome at most that many seconds pass.
C7_OverallBound == elapsed <= SpawnTimeout

\* C8. A step whose process has ended and been waited for succeeds exactly
\* when the process exited with code 0: a plain step by the return code of
\* subprocess.run, an interactive step that got through its interactions to
\* the end of the stream by the exit status of the child. A nonzero code and
\* an end by a signal both fail the step and abort the recipe.
C8_Classification ==
    \A n \in Steps :
        /\ status[n] # NoStatus =>
              /\ outcome[n] \in {"success", "failed"}
              /\ outcome[n] = "success" <=> status[n] = [kind |-> "exit", code |-> 0]
              /\ outcome[n] = "failed" =>
                    /\ pc = "done"
                    /\ Reported("step_failed")
                    /\ \A b \in Steps : b > n => b \notin started
        /\ (outcome[n] = "success" \/ (~IsInteractive(n) /\ outcome[n] = "failed"))
              => status[n] # NoStatus

\* An interactive step got to the end of the stream and its child was ended
\* by a signal; a plain step before it exited with 0.
C8_Witness ==
    \E n \in Steps :
        /\ IsInteractive(n)
        /\ status[n].kind = "signal"
        /\ outcome[n] = "failed"
        /\ Len(sent) = Len(commands[n].interactive)
        /\ \E m \in Steps : ~IsInteractive(m) /\ outcome[m] = "success"

\* C9. Success of the recipe is reported only when every step has succeeded;
\* when a step has failed it is not reported, and the failure is: by the
\* abort message, or by the traceback when the step raised.
C9_SuccessOnlyIfAll ==
    /\ Reported("all_completed") => \A n \in Steps : outcome[n] = "success"
    /\ \A n \in Steps :
          /\ outcome[n] = "failed" => (~Reported("all_completed") /\ Reported("step_failed"))
          /\ outcome[n] = "raised" => (~Reported("all_completed") /\ Reported("traceback"))
    /\ Reported("step_failed") => \E n \in Steps : outcome[n] = "failed"

\* Every step of a recipe with more than one step has succeeded.
C9_Witness ==
    /\ Reported("all_completed")
    /\ Len(outcome) >= 2
    /\ \A n \in Steps : outcome[n] = "success"

\* The template with its placeholders replaced in one pass: scanning the
\* template itself from the left, a placeholder of a bound key gives way to
\* the key's value, every other atom is kept; what the values bring in is
\* not looked at.
RECURSIVE Simultaneous(_, _)
Simultaneous(s, bindings) ==
    IF s = <<>> THEN <<>>
    ELSE LET hits == { n \in 1..Len(bindings) : IsPrefix(Placeholder(bindings[n].key), s) }
         IN IF hits # {}
            THEN LET n == CHOOSE m \in hits : \A l \in hits : m <= l
                 IN bindings[n].value
                      \o Simultaneous(SubSeq(s, Len(Placeholder(bindings[n].key)) + 1, Len(s)),
                                      bindings)
            ELSE <<s[1]>> \o Simultaneous(Tail(s), bindings)

\* Every brace of the text belongs to a placeholder {{name}}.
RECURSIVE WellFormed(_)
WellFormed(s) ==
    IF s = <<>> THEN TRUE
    ELSE IF s[1] \notin Braces THEN WellFormed(Tail(s))
    ELSE /\ Len(s) >= 5
         /\ s[1] = "{" /\ s[2] = "{" /\ s[3] \notin Braces /\ s[4] = "}" /\ s[5] = "}"
         /\ WellFormed(SubSeq(s, 6, Len(s)))

BraceFree(s) == \A n \in 1..Len(s) : s[n] \notin Braces

PlainBindings ==
    \A n \in 1..Len(args_values) :
        args_values[n].key \notin Braces /\ BraceFree(args_values[n].value)

\* The working directory template of a step, None when it gives none.
CwdTemplate(step) == IF "cwd" \in DOMAIN step THEN step.cwd ELSE None

\* The current step has been substituted and started.
Substituted == pc \notin {"select", "ask_args", "loop"} /\ i \in started

\* C10, as stated. The command and the working directory of a started step
\* are its templates with the placeholders of the bound keys replaced by
\* their values and the other placeholders kept.
C10_SubstitutionAsStated ==
    Substituted =>
        /\ command_to_run = Simultaneous(command_step.run, args_values)
        /\ cwd = Simultaneous(CwdTemplate(command_step), args_values)

\* C10, amended. That holds when every brace of the template belongs to a
\* placeholder and no bound key or value holds a brace. With the binding
\* projectName = foo the step "cd {{projectName}} && build" runs the
\* command "cd foo && build", and a placeholder of an unbound key reaches
\* the command as it is.
C10_SubstitutionPlain ==
    Substituted =>
        /\ (PlainBindings /\ WellFormed(command_step.run))
              => command_to_run = Simultaneous(command_step.run, args_values)
        /\ (PlainBindings /\ WellFormed(CwdTemplate(command_step)))
              => cwd = Simultaneous(CwdTemplate(command_step), args_values)
        /\ (command_step.name = "build" /\ args_values[1] = [key |-> "projectName", value |-> <<"foo">>])
              => command_to_run = <<"cd ", "foo", " && build">>
        /\ command_step.name = "echo"
              => IsPrefix(Placeholder("other"),
                          SubSeq(command_to_run, Len(command_to_run) - 4, Len(command_to_run)))

\* A step with two placeholders of one key and a working directory has been
\* substituted with brace-free values.
C10_Witness ==
    /\ Substituted
    /\ PlainBindings
    /\ command_step.name = "echo"
    /\ command_to_run = <<"echo ", "foo", " ", "foo">> \o Placeholder("other")
    /\ outcome[1] = "success"

\* C11. An empty answer to an argument question, whichever question it is,
\* ends the run there: it is the last question asked, the abort is
\* reported, no step is ever started, no command is run, and neither the
\* success of the recipe nor of a step is reported.
C11_EmptyArgumentAborts ==
    \A n \in 1..Len(asked) :
        asked[n].value = None =>
            /\ n = Len(asked)
            /\ pc = "done"
            /\ Reported("empty_argument")
            /\ started = {}
            /\ \A m \in Steps : outcome[m] = "none" /\ spawned[m] = NotSpawned
            /\ child = NoChild
            /\ ~Reported("step")
            /\ ~Reported("step_completed")
            /\ ~Reported("all_completed")

\* The second of two arguments was left empty after the first was given.
C11_Witness ==
    /\ Len(asked) = 2
    /\ asked[1].value # None
    /\ asked[2].value = None
    /\ pc = "done"

\* C12. The command of every step that has been started was started through
\* a command shell, and that of an interactive step on a pseudo-terminal.
C12_ShellAndPty ==
    \A n \in Steps :
        spawned[n] # NotSpawned =>
            /\ spawned[n].how = "shell"
            /\ IsInteractive(n) => spawned[n].pty

\* The program is inside the execution function of step i.
InStep == pc \in {"simple", "spawn", "expect", "sendline", "expect_eof"}

\* How many times the headline of step n has been written.
Headlines(n) ==
    Cardinality({ m \in 1..Len(console) : console[m].msg = "step" /\ console[m].n = n })

\* C13. The steps run one after the other in the declared order: a step is
\* started only when all the steps before it have returned success, and at
\* most once. A step with the key "interactive" is run by
\* run_command_interactive and no other step is, and a step is run in one
\* way only. While a step is run no process of another step is left to be
\* driven.
C13_Sequential ==
    /\ \A n \in Steps :
          /\ Headlines(n) = (IF n \in started THEN 1 ELSE 0)
          /\ n \in started => \A m \in 1..(n - 1) : m \in started /\ outcome[m] = "success"
          /\ spawned[n].how = "shell" => ~IsInteractive(n)
          /\ spawned[n].how = "exec" => IsInteractive(n)
          /\ spawned[n] # NotSpawned => n \in started
    /\ InStep =>
          /\ i \in started
          /\ outcome[i] = "none"
          /\ pc = "simple" <=> ~IsInteractive(i)
          /\ child.state \in {"running", "zombie"} =>
                (child.step = i /\ pc \in {"expect", "sendline", "expect_eof"})

\* The third step is being driven after a plain and an interactive step
\* have both succeeded.
C13_Witness ==
    /\ pc = "expect_eof"
    /\ i = 3
    /\ child.state = "running"
    /\ spawned[1].how = "shell"
    /\ spawned[2].how = "exec"
    /\ outcome[2] = "success"

\* The report that names the reason for which step n returned False.
ErrorNaming(n) ==
    IF ~IsInteractive(n)
    THEN [msg |-> "error_exit_code", code |-> returncode(status[n])]
    ELSE IF cause = "exit"
    THEN [msg |-> "error_exit_code", code |-> status[n]]
    ELSE IF cause \in {"prompt_timeout", "final_timeout"}
    THEN [msg |-> "error_timeout"]
    ELSE [msg |-> "error_unexpected"]

\* C14. A step never returns False in silence: whatever made it fail, a
\* nonzero return code of a plain step, a nonzero or missing exit status of
\* an interactive one, a timeout, the end of the stream or another
\* exception, the report naming it is written before the step returns and
\* the abort message of the recipe comes right after it, as the last thing
\* written.
C14_NoSilentFailure ==
    \A n \in Steps :
        outcome[n] = "failed" =>
            /\ Len(console) >= 2
            /\ console[Len(console)] = [msg |-> "step_failed"]
            /\ console[Len(console) - 1] = ErrorNaming(n)
            /\ IsInteractive(n) => cause # "none"
            /\ (~IsInteractive(n) \/ cause = "exit") => status[n] # NoStatus

\* A plain step has failed after an interactive step succeeded.
C14_Witness ==
    \E n \in Steps :
        /\ n > 1
        /\ outcome[n] = "failed"
        /\ ~IsInteractive(n)
        /\ IsInteractive(n - 1)
        /\ pc = "done"

\* One pass over the text per binding, in the order of declaration, each
\* pass over the result of the pass before.
RECURSIVE KeyByKey(_, _)
KeyByKey(s, bindings) ==
    IF bindings = <<>> THEN s
    ELSE KeyByKey(Simultaneous(s, <<bindings[1]>>), Tail(bindings))

\* The current step is "build" of the recipe with the arguments projectName
\* and dir, declared in that order, and has been substituted.
BuildSubstituted ==
    /\ Substituted
    /\ command_step.name = "build"
    /\ Len(args_values) = 2

\* C15. The bindings are applied one key at a time, in the order of
\* declaration, to the text as it stands. A value of projectName that
\* holds {{dir}}, a key declared later, has it replaced by the value of
\* dir; a value of dir that holds {{projectName}}, a key declared
\* earlier, keeps it as it is.
C15_SequentialSubstitution ==
    /\ Substituted =>
          /\ command_to_run = KeyByKey(command_step.run, args_values)
          /\ cwd = KeyByKey(CwdTemplate(command_step), args_values)
    /\ (BuildSubstituted /\ args_values[1].value = Placeholder("dir"))
          => command_to_run = <<"cd ">> \o args_values[2].value \o <<" && build">>
    /\ (BuildSubstituted /\ args_values[2].value = Placeholder("projectName"))
          => cwd = Placeholder("projectName")

\* The value of projectName held {{dir}}: the command has the value of dir
\* in its place, which one pass over the template would not have put there.
C15_Witness ==
    /\ BuildSubstituted
    /\ args_values[1].value = Placeholder("dir")
    /\ args_values[2].value = <<"foo">>
    /\ command_to_run = <<"cd ", "foo", " && build">>
    /\ command_to_run # Simultaneous(command_step.run, args_values)

\* C16. When the operator cancels the recipe question the run ends there:
\* no recipe is selected, no argument is asked for, no step is started,
\* and nothing is reported, neither success nor failure.
C16_CancelEndsQuietly ==
    (pc # "select" /\ recipe_name = "") =>
        /\ pc = "done"
        /\ selected_recipe = NoRecipe
        /\ asked = <<>>
        /\ args_values = <<>>
        /\ started = {}
        /\ child = NoChild
        /\ console = <<>>

\* The recipe question has been cancelled.
C16_Witness ==
    /\ pc = "done"
    /\ recipe_name = ""
    /\ console = <<>>

====
